---- MODULE Spec2Model ----
(***************************************************************************)
(* Model of src/app.py: the heart-disease prediction endpoint.             *)
(*                                                                         *)
(* The state is one request travelling through the handler predict():     *)
(* the JSON record, the validator's result, the assembled feature vector,  *)
(* the calls made on the external model, and the response.                 *)
(*                                                                         *)
(* JSON values are records [kind, n, s]:                                   *)
(*   kind "absent"  the key is not in the record                           *)
(*   kind "int"     the integer n                                          *)
(*   kind "bool"    true (n = 1) or false (n = 0)                          *)
(*   kind "float"   the finite float n / 10                                *)
(*   kind "inf"     Infinity (n = 1) or -Infinity (n = -1), e.g. 1e999     *)
(*   kind "nan"     NaN                                                    *)
(*   kind "str"     the string whose characters are the sequence s         *)
(*   kind "null"    null; a list or an object fails int() as null does     *)
(***************************************************************************)
EXTENDS Integers, Sequences, FiniteSets, TLC

VARIABLES pc, data, errors, exc, values, calls, prediction, prediction_proba, response

vars == <<pc, data, errors, exc, values, calls, prediction, prediction_proba, response>>

(***************************************************************************)
(* Bounds.                                                                 *)
(***************************************************************************)
\* At most MaxDev fields of a request differ from the well-formed record.
MaxDev == 2

(***************************************************************************)
(* VALIDATION_RULES (app.py 27-97).  'min' in rules is hasMin, and so on.  *)
(***************************************************************************)
RangeRule(f, lo, hi) ==
    [field |-> f, type |-> "int", hasMin |-> TRUE, min |-> lo, hasMax |-> TRUE, max |-> hi,
     hasAllowed |-> FALSE, allowed_values |-> <<>>, required |-> TRUE]

AllowedRule(f, vs) ==
    [field |-> f, type |-> "int", hasMin |-> FALSE, min |-> 0, hasMax |-> FALSE, max |-> 0,
     hasAllowed |-> TRUE, allowed_values |-> vs, required |-> TRUE]

VALIDATION_RULES ==
    << RangeRule("age", 18, 100),
       AllowedRule("sex", <<0, 1>>),
       AllowedRule("cp", <<0, 1, 2, 3>>),
       RangeRule("trestbps", 90, 200),
       RangeRule("chol", 120, 570),
       AllowedRule("fbs", <<0, 1>>),
       AllowedRule("restecg", <<0, 1, 2>>),
       RangeRule("thalach", 60, 220),
       AllowedRule("exang", <<0, 1>>),
       AllowedRule("oldpeak", <<0, 1, 2, 3, 4, 5>>),
       AllowedRule("slope", <<0, 1, 2>>),
       AllowedRule("ca", <<0, 1, 2, 3>>),
       AllowedRule("thal", <<0, 1, 2, 3>>) >>

NumFields == Len(VALIDATION_RULES)

Fields == { VALIDATION_RULES[i].field : i \in 1..NumFields }

(***************************************************************************)
(* JSON values.                                                            *)
(***************************************************************************)
Absent == [kind |-> "absent", n |-> 0, s |-> <<>>]
Null == [kind |-> "null", n |-> 0, s |-> <<>>]
NaN == [kind |-> "nan", n |-> 0, s |-> <<>>]
Inf(sign) == [kind |-> "inf", n |-> sign, s |-> <<>>]
IntV(k) == [kind |-> "int", n |-> k, s |-> <<>>]
BoolV(b) == [kind |-> "bool", n |-> IF b THEN 1 ELSE 0, s |-> <<>>]
FloatV(tenths) == [kind |-> "float", n |-> tenths, s |-> <<>>]
StrV(chars) == [kind |-> "str", n |-> 0, s |-> chars]

(***************************************************************************)
(* int(value) (app.py 112 and 145-157), as CPython computes it.            *)
(***************************************************************************)
Ok(k) == [ok |-> TRUE, v |-> k, exc |-> "none"]
Raise(e) == [ok |-> FALSE, v |-> 0, exc |-> e]

DigitVal ==
    [c \in {"0", "1", "2", "3", "4", "5", "6", "7", "8", "9"} |->
        CASE c = "0" -> 0 [] c = "1" -> 1 [] c = "2" -> 2 [] c = "3" -> 3 [] c = "4" -> 4
          [] c = "5" -> 5 [] c = "6" -> 6 [] c = "7" -> 7 [] c = "8" -> 8 [] c = "9" -> 9]

IsDigit(c) == c \in DOMAIN DigitVal

\* str.strip(): drop the whitespace at both ends
RECURSIVE LStrip(_)
LStrip(s) == IF s # <<>> /\ Head(s) = " " THEN LStrip(Tail(s)) ELSE s

RECURSIVE RStrip(_)
RStrip(s) == IF s # <<>> /\ s[Len(s)] = " " THEN RStrip(SubSeq(s, 1, Len(s) - 1)) ELSE s

Strip(s) == RStrip(LStrip(s))

\* decimal digits, single underscores allowed between digits
WellFormedDigits(s) ==
    /\ s # <<>>
    /\ \A i \in 1..Len(s) : IsDigit(s[i]) \/ s[i] = "_"
    /\ IsDigit(s[1]) /\ IsDigit(s[Len(s)])
    /\ \A i \in 1..(Len(s) - 1) : ~(s[i] = "_" /\ s[i + 1] = "_")

RECURSIVE DigitsValue(_, _)
DigitsValue(s, acc) ==
    IF s = <<>> THEN acc
    ELSE IF Head(s) = "_" THEN DigitsValue(Tail(s), acc)
    ELSE DigitsValue(Tail(s), 10 * acc + DigitVal[Head(s)])

\* int(str): surrounding whitespace, an optional sign, decimal digits
ParseInt(s) ==
    LET t == Strip(s)
        signed == t # <<>> /\ Head(t) \in {"+", "-"}
        body == IF signed THEN Tail(t) ELSE t
    IN  IF WellFormedDigits(body)
        THEN Ok((IF signed /\ Head(t) = "-" THEN -1 ELSE 1) * DigitsValue(body, 0))
        ELSE Raise("ValueError")

\* int(float): truncation toward zero
Trunc(tenths) == IF tenths >= 0 THEN tenths \div 10 ELSE -((-tenths) \div 10)

int(value) ==
    CASE value.kind = "int" -> Ok(value.n)
      [] value.kind = "bool" -> Ok(value.n)
      [] value.kind = "float" -> Ok(Trunc(value.n))
      [] value.kind = "inf" -> Raise("OverflowError")
      [] value.kind = "nan" -> Raise("ValueError")
      [] value.kind = "str" -> ParseInt(value.s)
      [] OTHER -> Raise("TypeError")

(***************************************************************************)
(* validate_data (app.py 99-127).                                          *)
(***************************************************************************)
\* str(list) of a list of ints: "[0, 1]"
RECURSIVE JoinInts(_)
JoinInts(vs) ==
    IF vs = <<>> THEN ""
    ELSE IF Len(vs) = 1 THEN ToString(vs[1])
    ELSE ToString(vs[1]) \o ", " \o JoinInts(Tail(vs))

FormatList(vs) == "[" \o JoinInts(vs) \o "]"

InList(v, vs) == \E i \in 1..Len(vs) : vs[i] = v

\* ConstraintErrors with the bounds taken as exclusive
ConstraintErrors_Exclusive(rules, value) ==
    (IF rules.hasMin /\ value <= rules.min
        THEN << rules.field \o " must be at least " \o ToString(rules.min) >> ELSE <<>>)
    \o
    (IF rules.hasMax /\ value >= rules.max
        THEN << rules.field \o " must be no more than " \o ToString(rules.max) >> ELSE <<>>)
    \o
    (IF rules.hasAllowed /\ ~InList(value, rules.allowed_values)
        THEN << rules.field \o " must be one of " \o FormatList(rules.allowed_values) >> ELSE <<>>)

\* the checks on a coerced value (117-125)
ConstraintErrors(rules, value) ==
    (IF rules.hasMin /\ value < rules.min
        THEN << rules.field \o " must be at least " \o ToString(rules.min) >> ELSE <<>>)
    \o
    (IF rules.hasMax /\ value > rules.max
        THEN << rules.field \o " must be no more than " \o ToString(rules.max) >> ELSE <<>>)
    \o
    (IF rules.hasAllowed /\ ~InList(value, rules.allowed_values)
        THEN << rules.field \o " must be one of " \o FormatList(rules.allowed_values) >> ELSE <<>>)

\* one iteration of the loop (103-125): the messages appended, or the exception escaping
CheckField(rules, d) ==
    IF d[rules.field].kind = "absent"
    THEN [exc |-> "none",
          msgs |-> IF rules.required THEN << "Missing required field: " \o rules.field >> ELSE <<>>]
    ELSE LET c == int(d[rules.field])
         IN  IF c.ok THEN [exc |-> "none", msgs |-> ConstraintErrors(rules, c.v)]
             ELSE IF c.exc \in {"ValueError", "TypeError"}
             THEN [exc |-> "none", msgs |-> << rules.field \o " must be of type " \o rules.type >>]
             ELSE [exc |-> c.exc, msgs |-> <<>>]

\* the loop from schema position i with the errors accumulated so far
RECURSIVE ValidateFrom(_, _, _)
ValidateFrom(d, i, acc) ==
    IF i > NumFields THEN [exc |-> "none", errors |-> acc]
    ELSE LET r == CheckField(VALIDATION_RULES[i], d)
         IN  IF r.exc # "none" THEN [exc |-> r.exc, errors |-> <<>>]
             ELSE ValidateFrom(d, i + 1, acc \o r.msgs)

validate_data(d) == ValidateFrom(d, 1, <<>>)

(***************************************************************************)
(* The requests the endpoint is exercised with (request.json, app.py 132). *)
(***************************************************************************)
\* the record of end-to-end scenario 1
WellFormed ==
    [f \in Fields |->
        IntV(CASE f = "age" -> 55 [] f = "sex" -> 1 [] f = "cp" -> 2 [] f = "trestbps" -> 130
               [] f = "chol" -> 250 [] f = "fbs" -> 0 [] f = "restecg" -> 1 [] f = "thalach" -> 150
               [] f = "exang" -> 0 [] f = "oldpeak" -> 1 [] f = "slope" -> 1 [] f = "ca" -> 0
               [] f = "thal" -> 2)]

RuleByField ==
    [f \in Fields |-> VALIDATION_RULES[CHOOSE i \in 1..NumFields : VALIDATION_RULES[i].field = f]]

RuleOf(f) == RuleByField[f]

Lowest(rules) == IF rules.hasMin THEN rules.min ELSE rules.allowed_values[1]

Highest(rules) == IF rules.hasMax THEN rules.max ELSE rules.allowed_values[Len(rules.allowed_values)]

\* the values a field is given: the edges of its rule, and JSON values that are
\* no integers (17.9 and -0.1 are floats just below the lowest value; a field
\* with a range is given its minimum, a field with an allowed set is given true)
Candidates(rules) ==
    << Absent, Null, NaN, Inf(1),
       StrV(<<"a", "b", "c">>), StrV(<<" ", "+", "1", "_", "5", "0", " ">>),
       IF rules.hasMin THEN IntV(rules.min) ELSE BoolV(TRUE),
       IntV(Highest(rules)), IntV(Highest(rules) + 1),
       FloatV(10 * Lowest(rules) - 1) >>

CandidatesOf == [f \in Fields |-> Candidates(RuleOf(f))]

NumCandidates == Len(Candidates(VALIDATION_RULES[1]))

DevSets == { S \in SUBSET Fields : Cardinality(S) <= MaxDev }

\* the record in which the fields of S are given the candidates d picks
Request(S, d) == [f \in Fields |-> IF f \in S THEN CandidatesOf[f][d[f]] ELSE WellFormed[f]]

(***************************************************************************)
(* The external model (joblib.load, app.py 21): an opaque classifier.      *)
(***************************************************************************)
Labels == {0, 1}

\* (negative, positive) class probabilities, in tenths
Probabilities == { <<3, 7>>, <<10, 0>> }

(***************************************************************************)
(* The handler predict() (app.py 129-179).                                 *)
(***************************************************************************)
NoResponse == [status |-> 0, body |-> [pending |-> TRUE]]

\* the exception in flight: its type and the call that raised it
NoException == [type |-> "none", at |-> "none"]

Exception(t, where) == [type |-> t, at |-> where]

Init ==
    /\ pc = "idle"
    /\ data = [f \in Fields |-> Absent]
    /\ errors = <<>>
    /\ exc = NoException
    /\ values = <<>>
    /\ calls = <<>>
    /\ prediction = <<>>
    /\ prediction_proba = <<>>
    /\ response = NoResponse

\* data = request.json (132)
Receive ==
    /\ pc = "idle"
    /\ \E S \in DevSets : \E d \in [S -> 1..NumCandidates] : data' = Request(S, d)
    /\ pc' = "validate"
    /\ UNCHANGED <<errors, exc, values, calls, prediction, prediction_proba, response>>

\* AfterValidation without the early return: the handler goes on with an invalid record
AfterValidation_NoShortCircuit(r) ==
    IF r.exc # "none"
    THEN /\ exc' = Exception(r.exc, "validate_data")
         /\ pc' = "except"
         /\ UNCHANGED <<errors, response>>
    ELSE /\ errors' = r.errors
         /\ pc' = "assemble"
         /\ UNCHANGED <<exc, response>>

\* what the handler does with the outcome r of validate_data (136-141)
AfterValidation(r) ==
    IF r.exc # "none"
    THEN /\ exc' = Exception(r.exc, "validate_data")
         /\ pc' = "except"
         /\ UNCHANGED <<errors, response>>
    ELSE /\ errors' = r.errors
         /\ UNCHANGED exc
         /\ IF r.errors # <<>>
            THEN /\ response' = [status |-> 400,
                                 body |-> [success |-> FALSE, errors |-> r.errors]]
                 /\ pc' = "done"
            ELSE /\ pc' = "assemble"
                 /\ UNCHANGED response

\* errors = validate_data(data); if errors: return ..., 400 (136-141)
Validate ==
    /\ pc = "validate"
    /\ LET r == validate_data(data) IN AfterValidation(r)
    /\ UNCHANGED <<data, values, calls, prediction, prediction_proba>>

\* FeatureOrder with slope and ca exchanged
FeatureOrder_Swapped ==
    << "age", "sex", "cp", "trestbps", "chol", "fbs", "restecg", "thalach",
       "exang", "oldpeak", "ca", "slope", "thal" >>

\* the order in which the handler reads the fields (145-157)
FeatureOrder ==
    << "age", "sex", "cp", "trestbps", "chol", "fbs", "restecg", "thalach",
       "exang", "oldpeak", "slope", "ca", "thal" >>

\* int(data[f]): KeyError when the key is absent
Feature(d, f) == IF d[f].kind = "absent" THEN Raise("KeyError") ELSE int(d[f])

\* values = np.array([[int(data['age']), ...]]) (144-158)
Assemble ==
    /\ pc = "assemble"
    /\ LET cs == [i \in 1..Len(FeatureOrder) |-> Feature(data, FeatureOrder[i])]
       IN  IF \E i \in 1..Len(cs) : ~cs[i].ok
           THEN /\ exc' = Exception(cs[CHOOSE i \in 1..Len(cs) :
                                        ~cs[i].ok /\ \A j \in 1..(i - 1) : cs[j].ok].exc,
                                     "assemble")
                /\ pc' = "except"
                /\ UNCHANGED values
           ELSE /\ values' = [i \in 1..Len(cs) |-> cs[i].v]
                /\ pc' = "predict"
                /\ UNCHANGED exc
    /\ UNCHANGED <<data, errors, calls, prediction, prediction_proba, response>>

\* prediction = model.predict(values) (161)
CallPredict ==
    /\ pc = "predict"
    /\ calls' = Append(calls, [fn |-> "predict", arg |-> values])
    /\ \/ /\ \E label \in Labels : prediction' = <<label>>
          /\ pc' = "predict_proba"
          /\ UNCHANGED exc
       \/ /\ exc' = Exception("ModelError", "predict")
          /\ pc' = "except"
          /\ UNCHANGED prediction
    /\ UNCHANGED <<data, errors, values, prediction_proba, response>>

\* CallPredictProba handing the model the row values[0] instead of the matrix
CallPredictProba_Row ==
    /\ pc = "predict_proba"
    /\ calls' = Append(calls, [fn |-> "predict_proba", arg |-> <<values[1]>>])
    /\ \/ /\ \E p \in Probabilities : prediction_proba' = p
          /\ pc' = "respond"
          /\ UNCHANGED exc
       \/ /\ exc' = Exception("ModelError", "predict_proba")
          /\ pc' = "except"
          /\ UNCHANGED prediction_proba
    /\ UNCHANGED <<data, errors, values, prediction, response>>

\* prediction_proba = model.predict_proba(values)[0] (162)
CallPredictProba ==
    /\ pc = "predict_proba"
    /\ calls' = Append(calls, [fn |-> "predict_proba", arg |-> values])
    /\ \/ /\ \E p \in Probabilities : prediction_proba' = p
          /\ pc' = "respond"
          /\ UNCHANGED exc
       \/ /\ exc' = Exception("ModelError", "predict_proba")
          /\ pc' = "except"
          /\ UNCHANGED prediction_proba
    /\ UNCHANGED <<data, errors, values, prediction, response>>

\* return jsonify({...}) (164-172); the timestamp is the wall clock's
RespondOk ==
    /\ pc = "respond"
    /\ response' = [status |-> 200,
                    body |-> [success |-> TRUE,
                              prediction |-> prediction[1],
                              probability |-> [negative |-> prediction_proba[1],
                                               positive |-> prediction_proba[2]],
                              timestamp |-> "now"]]
    /\ pc' = "done"
    /\ UNCHANGED <<data, errors, exc, values, calls, prediction, prediction_proba>>

\* HandleException answering with what it has: the exception's text and the label
HandleException_Partial ==
    /\ pc = "except"
    /\ response' = [status |-> 500,
                    body |-> IF prediction # <<>>
                             THEN [success |-> FALSE, error |-> exc.type, prediction |-> prediction[1]]
                             ELSE [success |-> FALSE, error |-> exc.type]]
    /\ pc' = "done"
    /\ UNCHANGED <<data, errors, exc, values, calls, prediction, prediction_proba>>

\* except Exception (174-179)
HandleException ==
    /\ pc = "except"
    /\ response' = [status |-> 500, body |-> [success |-> FALSE, error |-> "Internal server error"]]
    /\ pc' = "done"
    /\ UNCHANGED <<data, errors, exc, values, calls, prediction, prediction_proba>>

\* the server takes the next request; nothing of the last one is kept
NextRequest ==
    /\ pc = "done"
    /\ pc' = "idle"
    /\ data' = [f \in Fields |-> Absent]
    /\ errors' = <<>>
    /\ exc' = NoException
    /\ values' = <<>>
    /\ calls' = <<>>
    /\ prediction' = <<>>
    /\ prediction_proba' = <<>>
    /\ response' = NoResponse

Next ==
    \/ Receive
    \/ Validate
    \/ Assemble
    \/ CallPredict
    \/ CallPredictProba
    \/ RespondOk
    \/ HandleException
    \/ NextRequest

Spec == Init /\ [][Next]_vars

(***************************************************************************)
(* Vocabulary of the properties.                                           *)
(***************************************************************************)
Present(f) == data[f].kind # "absent"

\* the handler is past the call of validate_data
PastValidation == pc \notin {"idle", "validate"}

\* validate_data returned an error sequence (no exception escaped it)
Returned == PastValidation /\ exc.at # "validate_data"

Occurrences(m) == Cardinality({ i \in 1..Len(errors) : errors[i] = m })

FieldAt(i) == VALIDATION_RULES[i].field

MissingMsg(f) == "Missing required field: " \o f

TypeMsg(f) == f \o " must be of type int"

MinMsg(f) == f \o " must be at least " \o ToString(RuleOf(f).min)

MaxMsg(f) == f \o " must be no more than " \o ToString(RuleOf(f).max)

AllowedText(f) ==
    CASE f \in {"sex", "fbs", "exang"} -> "[0, 1]"
      [] f \in {"restecg", "slope"} -> "[0, 1, 2]"
      [] f \in {"cp", "ca", "thal"} -> "[0, 1, 2, 3]"
      [] f = "oldpeak" -> "[0, 1, 2, 3, 4, 5]"
      [] OTHER -> "[]"

AllowedMsg(f) == f \o " must be one of " \o AllowedText(f)

ConstraintMsgs(f) == {MinMsg(f), MaxMsg(f), AllowedMsg(f)}

BelowMin(f, v) == RuleOf(f).hasMin /\ v < RuleOf(f).min

AboveMax(f, v) == RuleOf(f).hasMax /\ v > RuleOf(f).max

NotAllowed(f, v) == RuleOf(f).hasAllowed /\ v \notin { RuleOf(f).allowed_values[i] : i \in 1..Len(RuleOf(f).allowed_values) }

\* the messages the specification gives one field
ExpectedMsgs(f) ==
    IF ~Present(f) THEN << MissingMsg(f) >>
    ELSE IF ~int(data[f]).ok THEN << TypeMsg(f) >>
    ELSE LET v == int(data[f]).v
         IN  (IF BelowMin(f, v) THEN << MinMsg(f) >> ELSE <<>>)
             \o (IF AboveMax(f, v) THEN << MaxMsg(f) >> ELSE <<>>)
             \o (IF NotAllowed(f, v) THEN << AllowedMsg(f) >> ELSE <<>>)

RECURSIVE ExpectedFrom(_)
ExpectedFrom(i) == IF i > NumFields THEN <<>> ELSE ExpectedMsgs(FieldAt(i)) \o ExpectedFrom(i + 1)

AllFieldsValid ==
    \A f \in Fields :
        /\ Present(f)
        /\ int(data[f]).ok
        /\ ~BelowMin(f, int(data[f]).v) /\ ~AboveMax(f, int(data[f]).v) /\ ~NotAllowed(f, int(data[f]).v)

MissingOnly(f) ==
    /\ Occurrences(MissingMsg(f)) = 1
    /\ Occurrences(TypeMsg(f)) = 0
    /\ \A m \in ConstraintMsgs(f) : Occurrences(m) = 0

MissingRule ==
    \A f \in Fields : IF Present(f) THEN Occurrences(MissingMsg(f)) = 0 ELSE MissingOnly(f)

ConstraintRule ==
    \A f \in Fields :
        (Present(f) /\ int(data[f]).ok) =>
            LET v == int(data[f]).v
            IN  /\ RuleOf(f).hasMin => Occurrences(MinMsg(f)) = (IF v < RuleOf(f).min THEN 1 ELSE 0)
                /\ RuleOf(f).hasMax => Occurrences(MaxMsg(f)) = (IF v > RuleOf(f).max THEN 1 ELSE 0)
                /\ RuleOf(f).hasAllowed => Occurrences(AllowedMsg(f)) = (IF NotAllowed(f, v) THEN 1 ELSE 0)
                /\ ~RuleOf(f).hasMin => Occurrences(MinMsg(f)) = 0
                /\ ~RuleOf(f).hasMax => Occurrences(MaxMsg(f)) = 0
                /\ ~RuleOf(f).hasAllowed => Occurrences(AllowedMsg(f)) = 0
                /\ Occurrences(TypeMsg(f)) = 0

TypeRule ==
    \A i \in 1..NumFields :
        (Present(FieldAt(i)) /\ ~int(data[FieldAt(i)]).ok) =>
            /\ Occurrences(TypeMsg(FieldAt(i))) = 1
            /\ Occurrences(MissingMsg(FieldAt(i))) = 0
            /\ \A m \in ConstraintMsgs(FieldAt(i)) : Occurrences(m) = 0
            /\ \A j \in (i + 1)..NumFields :
                  \A k \in 1..Len(ExpectedMsgs(FieldAt(j))) :
                      Occurrences(ExpectedMsgs(FieldAt(j))[k]) = 1

InternalError == [status |-> 500, body |-> [success |-> FALSE, error |-> "Internal server error"]]

CallsOf(fn) == Cardinality({ i \in 1..Len(calls) : calls[i].fn = fn })

(***************************************************************************)
(* C1.                                                                     *)
(***************************************************************************)
\* C1: validate_data never raises: whatever JSON values the fields hold, no
\* exception escapes validate_data, and every present value that int() cannot
\* coerce is reported as "<field> must be of type int".
C1_NeverRaises ==
    /\ exc.at # "validate_data"
    /\ PastValidation =>
          \A f \in Fields : (Present(f) /\ ~int(data[f]).ok) => Occurrences(TypeMsg(f)) >= 1

(***************************************************************************)
(* C2.                                                                     *)
(***************************************************************************)
\* C2: when validate_data returns a non-empty error sequence the request ends
\* with status 400, success = false and exactly that sequence, and neither
\* model.predict nor model.predict_proba has been called.
ShortCircuited(r) ==
    (r.exc = "none" /\ r.errors # <<>>) =>
        /\ calls = <<>>
        /\ values = <<>> /\ prediction = <<>> /\ prediction_proba = <<>>
        /\ pc = "done"
        /\ response = [status |-> 400, body |-> [success |-> FALSE, errors |-> r.errors]]

C2_InvalidShortCircuits == PastValidation => ShortCircuited(validate_data(data))

C2_Witness ==
    /\ response.status = 400
    /\ Len(response.body.errors) >= 2
    /\ calls = <<>>

(***************************************************************************)
(* C3.                                                                     *)
(***************************************************************************)
\* C3 as stated: a successful request has invoked the external model exactly
\* once, and both the label and the distribution come from that invocation.
C3_SingleInvocation == response.status = 200 => Len(calls) = 1

\* C3 as amended: a request whose record passes validation invokes
\* model.predict exactly once and, when that call succeeds,
\* model.predict_proba exactly once, each with the assembled vector; the
\* label of the response is the first call's and the distribution the
\* second call's.
C3_OneCallEach ==
    /\ CallsOf("predict") <= 1 /\ CallsOf("predict_proba") <= 1
    /\ \A i \in 1..Len(calls) : calls[i].arg = values /\ Len(values) = NumFields
    /\ (pc = "done" /\ Returned /\ errors = <<>>) =>
          /\ Len(calls) >= 1
          /\ calls[1].fn = "predict"
          /\ exc.at # "predict" => (Len(calls) = 2 /\ calls[2].fn = "predict_proba")
    /\ response.status = 200 =>
          /\ calls = << [fn |-> "predict", arg |-> values], [fn |-> "predict_proba", arg |-> values] >>
          /\ response.body.prediction = prediction[1]
          /\ response.body.probability =
                [negative |-> prediction_proba[1], positive |-> prediction_proba[2]]

C3_Witness ==
    /\ response.status = 200
    /\ Len(calls) = 2
    /\ response.body.prediction = 1
    /\ response.body.probability.negative = 10

(***************************************************************************)
(* C4.                                                                     *)
(***************************************************************************)
\* C4: a failure in assembly or in either model call ends the request with
\* status 500 and the body {success: false, error: "Internal server error"};
\* a response with success = false carries no prediction and no probability,
\* the failed call is made once only, and 500 is answered only on a failure.
C4_FailureIs500 ==
    /\ (pc = "done" /\ exc.type # "none") => response = InternalError
    /\ response.status = 500 => (response = InternalError /\ exc.type # "none")
    /\ (response.status # 0 /\ ~response.body.success) =>
          DOMAIN response.body \cap {"prediction", "probability"} = {}
    /\ exc.at = "predict" =>
          (calls = << [fn |-> "predict", arg |-> values] >> /\ prediction = <<>> /\ prediction_proba = <<>>)
    /\ exc.at = "predict_proba" =>
          (Len(calls) = 2 /\ CallsOf("predict_proba") = 1 /\ prediction_proba = <<>>)
    /\ exc.type # "none" => pc \in {"except", "done"}

C4_Witness ==
    /\ pc = "done"
    /\ exc = Exception("ModelError", "predict_proba")
    /\ prediction # <<>>
    /\ response.status = 500

(***************************************************************************)
(* C5.                                                                     *)
(***************************************************************************)
\* C5: validate_data checks all 13 fields and accumulates every error: past
\* validation, the error sequence is the concatenation, in schema declaration
\* order, of each field's own messages.
C5_AllFieldsAccumulated == PastValidation => errors = ExpectedFrom(1)

\* the same of the sequences validate_data returns
C5_WhenReturned == Returned => errors = ExpectedFrom(1)

(***************************************************************************)
(* C6.                                                                     *)
(***************************************************************************)
\* C6: a record whose 13 fields are all present, coercible to an integer and
\* within their range or allowed set gets the empty error sequence, and is
\* never answered with status 400.
C6_ValidAccepted ==
    (PastValidation /\ AllFieldsValid) =>
        /\ Returned
        /\ errors = <<>>
        /\ response.status # 400

C6_Witness ==
    /\ PastValidation
    /\ AllFieldsValid
    /\ \E f \in Fields : data[f].kind = "float"
    /\ \E f \in Fields : data[f].kind = "str"

(***************************************************************************)
(* C7.                                                                     *)
(***************************************************************************)
\* C7: past validation, every absent field has exactly one "Missing required
\* field" message and no type, range or allowed-value message, and a present
\* field has no "Missing required field" message.
C7_MissingReported == PastValidation => MissingRule

\* the same of the sequences validate_data returns
C7_WhenReturned == Returned => MissingRule

(***************************************************************************)
(* C8.                                                                     *)
(***************************************************************************)
\* C8: past validation, a present field that coerces to v has the message
\* "must be at least" iff v < min, "must be no more than" iff v > max, and one
\* "must be one of" iff v is not allowed; min and max themselves are accepted.
C8_ConstraintsReported == PastValidation => ConstraintRule

\* the same of the sequences validate_data returns
C8_WhenReturned == Returned => ConstraintRule

(***************************************************************************)
(* C9.                                                                     *)
(***************************************************************************)
\* C9: for a record validate_data accepts, assembly does not fail and yields
\* 13 values, the i-th being int() of the record's value for the i-th field
\* of VALIDATION_RULES; the record of scenario 1 yields
\* [55,1,2,130,250,0,1,150,0,1,1,0,2].
C9_AssembledVector ==
    /\ (Returned /\ errors = <<>> /\ pc # "assemble") =>
          /\ exc.at # "assemble"
          /\ Len(values) = 13
          /\ \A i \in 1..NumFields :
                int(data[FieldAt(i)]).ok /\ values[i] = int(data[FieldAt(i)]).v
    /\ (data = WellFormed /\ values # <<>>) =>
          values = <<55, 1, 2, 130, 250, 0, 1, 150, 0, 1, 1, 0, 2>>

C9_Witness ==
    /\ Len(values) = 13
    /\ \E f \in Fields : data[f].kind = "str"
    /\ \E f \in Fields : data[f].kind = "float"

(***************************************************************************)
(* C10.                                                                    *)
(***************************************************************************)
\* C10: past validation, a present field whose value int() cannot coerce has
\* exactly one "<field> must be of type int" message and no other message,
\* and every later field of the schema still has its own messages.
C10_TypeErrorReported == PastValidation => TypeRule

\* the same of the sequences validate_data returns
C10_WhenReturned == Returned => TypeRule

====
